---- MODULE Spec2Model ----
(***************************************************************************)
(* Aadhaar masking service: the OCR fallback pipeline with the per-token   *)
(* pattern test (utils/solution1.py, utils/traditional_methods.py), the    *)
(* multi-token digit aggregation (utils/layoutlm.py, utils/solution2.py)   *)
(* and the oracle-assisted resolver (utils/genai_method.py), the folder    *)
(* batch loops (process_folder, process_images_in_folder) and the HTTP     *)
(* handlers of app.py serving two requests on one event loop.              *)
(*                                                                         *)
(* A text is a sequence of one-character strings.  A box is <<x1,y1,x2,y2>>*)
(* in pixel coordinates.  An image is ImgW x ImgH pixels.                  *)
(***************************************************************************)
EXTENDS Integers, Sequences, FiniteSets, TLC

VARIABLES
    mode,        \* which entry point this run exercises: "A", "B", "O", "F" or "S"
    \* ---- process_aadhar_image (solution1.py) ----
    image_data,  \* [decodable |-> BOOLEAN]: whether cv2.imdecode yields an image
    pcA,         \* position in process_aadhar_image
    calls,       \* OCR engine invocations so far, in order: [engine, raised]
    results,     \* the list the detection loop iterates over
    idxA,        \* index of the next element of results the loop reads
    rectsA,      \* cv2.rectangle calls made on masked_image, in order
    excA,        \* the exception travelling to the outer except clause
    outA,        \* what reaches the caller: an image or an HTTPException
    \* ---- extract_text_and_bboxes, mask_aadhaar (layoutlm.py, solution2.py) ----
    ocr_data,        \* pytesseract.image_to_data rows: text, left, top, width, height
    pcB,             \* position in mask_aadhaar
    iB,              \* index of the next word the loop reads
    current_tokens,  \* buffered numeric words
    current_bboxes,  \* their boxes [x1, y1, x2, y2]
    texts,           \* matched texts
    bboxes,          \* one rectangle per matched text
    drawnB,          \* draw.rectangle calls made by mask_aadhaar, in order
    retB,            \* what mask_aadhaar returned: "" (running), "None",
                     \* "output_path" (image saved) or "raised"
    \* ---- main, extract_aadhaar_with_gpt4, mask_aadhaar_number (genai_method.py) ----
    envO,            \* [api_key, input_exists]: what main finds at start
    pcO,             \* position in main
    aadhaar_number,  \* [some |-> BOOLEAN, value |-> text]: the oracle's value or None
    dataO,           \* the OCR rows find_aadhaar_coordinates searched
    coordinates,     \* [some |-> BOOLEAN, box |-> <<x, y, w, h>>] or None
    drawnO,          \* draw.rectangle calls made by mask_aadhaar_number
    savedO,          \* whether image.save(output_path) wrote the output file
    printedO,        \* the messages main printed, in order
    \* ---- process_folder (solution1.py), process_images_in_folder (solution2.py) ----
    fnF,             \* which batch function runs
    batchF,          \* the image files of the folder, in listing order: their kinds
    iF,              \* index of the next image the loop reads
    pcF,             \* position in the batch function
    writtenF,        \* indices of the images whose output file was written
    printedF,        \* the messages printed, in order: <<message, index>>
    \* ---- the HTTP handlers (app.py) ----
    reqS,            \* per request: [handler, files], files a list of uploads
    pcS,             \* per request: position in its handler
    idxS,            \* per request: index of the upload the loop is at
    timestampS,      \* per request: the second its multi-file handler started in
    masked_images,   \* per request: the output paths collected so far
    respS,           \* per request: the response the handler produced
    servedS,         \* per request: the file content the response delivered
    fs,              \* the files under temp/ and output/: path -> content
    clock            \* datetime.now(), in seconds

varsA == <<image_data, pcA, calls, results, idxA, rectsA, excA, outA>>
varsB == <<ocr_data, pcB, iB, current_tokens, current_bboxes, texts, bboxes, drawnB, retB>>
varsO == <<envO, pcO, aadhaar_number, dataO, coordinates, drawnO, savedO, printedO>>
varsF == <<fnF, batchF, iF, pcF, writtenF, printedF>>
varsS == <<reqS, pcS, idxS, timestampS, masked_images, respS, servedS, fs, clock>>
vars == <<mode, varsA, varsB, varsO, varsF, varsS>>
notA == <<mode, varsB, varsO, varsF, varsS>>
notB == <<mode, varsA, varsO, varsF, varsS>>
notO == <<mode, varsA, varsB, varsF, varsS>>
notF == <<mode, varsA, varsB, varsO, varsS>>
notS == <<mode, varsA, varsB, varsO, varsF>>

(***************************************************************************)
(* Bounds of the input universes.                                          *)
(***************************************************************************)
MaxCoord == 3      \* token coordinates range over -1..MaxCoord
MaxParts == 6      \* a generated token text is at most MaxParts parts long
MaxResults == 2    \* tokens in a multi-token OCR result

ImgW == MaxCoord - 1
ImgH == MaxCoord - 1
Coord == (0 - 1)..MaxCoord

(***************************************************************************)
(* Characters and the regular expressions of the source.                   *)
(***************************************************************************)
Digits == {"0", "1", "2", "3", "4", "5", "6", "7", "8", "9"}
Letters == {"a", "b", "x"}
Whitespace == {" ", "\t", "\n"}
WordChars == Digits \cup Letters \cup {"_"}

Rep(c, n) == [i \in 1..n |-> c]

\* \b at position pos: exactly one of text[pos-1], text[pos] is a word character
AtBoundary(text, pos) ==
    LET before == IF pos > 1 THEN text[pos - 1] \in WordChars ELSE FALSE
        after == IF pos <= Len(text) THEN text[pos] \in WordChars ELSE FALSE
    IN before # after

ClassOf(e) == IF e = "d" THEN Digits ELSE Whitespace

\* Match pattern elements pat[k..] at text[pos..]; the position after the
\* match, or 0 when the pattern does not match there.  Elements: "b" (\b),
\* "d" (\d), "s" (\s).
RECURSIVE MatchFrom(_, _, _, _)
MatchFrom(pat, k, text, pos) ==
    IF k > Len(pat) THEN pos
    ELSE IF pat[k] = "b"
         THEN IF AtBoundary(text, pos) THEN MatchFrom(pat, k + 1, text, pos) ELSE 0
         ELSE IF pos <= Len(text) /\ text[pos] \in ClassOf(pat[k])
              THEN MatchFrom(pat, k + 1, text, pos + 1)
              ELSE 0

re_match(pat, text) == MatchFrom(pat, 1, text, 1) # 0
re_fullmatch(pat, text) == MatchFrom(pat, 1, text, 1) = Len(text) + 1

Pat444 == Rep("d", 4) \o <<"s">> \o Rep("d", 4) \o <<"s">> \o Rep("d", 4)
\* r'\b\d{12}\b'
PAT_12 == <<"b">> \o Rep("d", 12) \o <<"b">>
\* r'\d{4}\s\d{4}\s\d{4}'
PAT_4_4_4 == Pat444
\* AADHAAR_REGEX = re.compile(r"\b\d{4}\s\d{4}\s\d{4}\b")
AADHAAR_REGEX == <<"b">> \o Pat444 \o <<"b">>

\* the per-token test of process_aadhar_image
StrategyAMatches(text) == re_match(PAT_12, text) \/ re_match(PAT_4_4_4, text)

(***************************************************************************)
(* Region of a Strategy A match.                                           *)
(***************************************************************************)
\* floor(0.66 * w)
Floor066(w) == (66 * w) \div 100
\* variant of Int066 that rounds down instead of towards zero (math.floor)
Int066_Floor(w) == Floor066(w)
\* int(0.66 * w): Python's int() truncates towards zero; the product is
\* computed in double precision, which agrees with the exact 66*w/100
\* after truncation for every |w| < 100000
Int066(w) == IF w >= 0 THEN (66 * w) \div 100 ELSE 0 - ((66 * (0 - w)) \div 100)

\* variant of RectOf that adds the truncated width to the right edge
\* instead of the left edge
RectOf_Extend(top_left, bottom_right, src) ==
    LET text_width == bottom_right[1] - top_left[1]
    IN [pt1 |-> top_left,
        pt2 |-> <<bottom_right[1] + Int066(text_width), bottom_right[2]>>,
        src |-> src]
\* the arguments of cv2.rectangle for a matched result: pt1, pt2; src is the
\* index in results of the token that was matched (bookkeeping only).  The
\* int() conversions of lines 46-47 and 54-55 leave integer coordinates as
\* they are.
RectOf(top_left, bottom_right, src) ==
    LET text_width == bottom_right[1] - top_left[1]
    IN [pt1 |-> top_left,
        pt2 |-> <<top_left[1] + Int066(text_width), bottom_right[2]>>,
        src |-> src]

\* the two corners the code reads from a result: bbox[0], bbox[2] of a
\* 4-corner tuple, bbox[0], bbox[1] of a 2-corner list
TopLeft(r) == r.bbox[1]
BottomRight(r) == IF r.shape = "tuple" THEN r.bbox[3] ELSE r.bbox[2]

(***************************************************************************)
(* Input universes.                                                        *)
(***************************************************************************)
G1 == <<"1", "2", "3", "4">>
G2 == <<"5", "6", "7", "8">>
SP == <<" ">>
ID12 == G1 \o G2 \o G1
IDSpaced == G1 \o SP \o G2 \o SP \o G1

Parts == {G1, SP, <<"a">>}
RECURSIVE TextsUpTo(_)
TextsUpTo(n) ==
    IF n = 0 THEN {<< >>}
    ELSE LET S == TextsUpTo(n - 1) IN S \cup {t \o p : t \in S, p \in Parts}
Texts == TextsUpTo(MaxParts)

Boxes == {<<x1, y1, x2, y2>> : x1 \in Coord, y1 \in Coord, x2 \in Coord, y2 \in Coord}
InnerBox == <<0, 0, ImgW, ImgH>>
SampleBoxes == {InnerBox, <<1, 0, MaxCoord, 1>>}
SampleTexts == {ID12, IDSpaced, <<"a">>}

RECURSIVE SeqsUpTo(_, _)
SeqsUpTo(S, n) ==
    IF n = 0 THEN {<< >>}
    ELSE LET R == SeqsUpTo(S, n - 1) IN R \cup {Append(q, e) : q \in R, e \in S}

\* one element of reader.readtext(image): (bbox of 4 corners, text, prob)
Tup(b, t) ==
    [shape |-> "tuple",
     bbox |-> <<<<b[1], b[2]>>, <<b[3], b[2]>>, <<b[3], b[4]>>, <<b[1], b[4]>>>>,
     text |-> t, prob |-> 1]
PrimaryOutputs ==
    {<<Tup(InnerBox, t)>> : t \in Texts}
    \cup {<<Tup(b, ID12)>> : b \in Boxes}
    \cup SeqsUpTo({Tup(b, t) : b \in SampleBoxes, t \in SampleTexts}, MaxResults)

\* pytesseract.image_to_data(..., output_type=DICT), one row per word
ConfThreshold == 60
Confs == {0 - 1, ConfThreshold, ConfThreshold + 1}
Row(t, c, l, tp, w, h) ==
    [text |-> t, conf |-> c, left |-> l, top |-> tp, width |-> w, height |-> h]
FallbackOutputs ==
    {<<Row(t, ConfThreshold + 1, 0, 0, ImgW, ImgH)>> : t \in Texts}
    \cup {<<Row(ID12, ConfThreshold + 1, l, tp, w, h)>> :
             l \in Coord, tp \in Coord, w \in 0..MaxCoord, h \in 0..MaxCoord}
    \cup SeqsUpTo({Row(t, c, 0, 0, ImgW, ImgH) : t \in SampleTexts, c \in Confs},
                  MaxResults)

\* the loop of lines 31-35: rows above the confidence threshold become
\* [((x, y), (x + w, y + h)), word, conf]
FallbackResults(text_data) ==
    LET kept == SelectSeq(text_data, LAMBDA r : r.conf > ConfThreshold)
    IN [i \in 1..Len(kept) |->
          [shape |-> "list",
           bbox |-> <<<<kept[i].left, kept[i].top>>,
                      <<kept[i].left + kept[i].width, kept[i].top + kept[i].height>>>>,
           text |-> kept[i].text, prob |-> kept[i].conf]]

(***************************************************************************)
(* process_aadhar_image                                                    *)
(***************************************************************************)
NoExc == [status |-> 0, detail |-> ""]
NoOut == [kind |-> "none", status |-> 0, detail |-> "", cause |-> NoExc]

InitA ==
    /\ mode = "A"
    /\ image_data \in [decodable : BOOLEAN]
    /\ pcA = "start"
    /\ calls = << >>
    /\ results = << >>
    /\ idxA = 1
    /\ rectsA = << >>
    /\ excA = NoExc
    /\ outA = NoOut

\* lines 14-20: decode; None raises HTTPException(400) inside the outer try
ADecodeOk ==
    /\ mode = "A" /\ pcA = "start" /\ image_data.decodable
    /\ pcA' = "ocr"
    /\ UNCHANGED <<notA, image_data, calls, results, idxA, rectsA, excA, outA>>

ADecodeFail ==
    /\ mode = "A" /\ pcA = "start" /\ ~image_data.decodable
    /\ excA' = [status |-> 400, detail |-> "Invalid image data"]
    /\ pcA' = "except"
    /\ UNCHANGED <<notA, image_data, calls, results, idxA, rectsA, outA>>

\* lines 22-24: the primary engine returns
APrimaryOk ==
    /\ mode = "A" /\ pcA = "ocr"
    /\ \E out \in PrimaryOutputs : results' = out
    /\ calls' = Append(calls, [engine |-> "easyocr", raised |-> FALSE])
    /\ idxA' = 1
    /\ pcA' = "detect"
    /\ UNCHANGED <<notA, image_data, rectsA, excA, outA>>

\* lines 22-27: the primary engine raises; results = []
APrimaryRaise ==
    /\ mode = "A" /\ pcA = "ocr"
    /\ calls' = Append(calls, [engine |-> "easyocr", raised |-> TRUE])
    /\ results' = << >>
    /\ pcA' = "fallback"
    /\ UNCHANGED <<notA, image_data, idxA, rectsA, excA, outA>>

\* variant of AFallbackOk that treats a returned result as an engine failure
AFallbackOk_Fails ==
    /\ mode = "A" /\ pcA = "fallback"
    /\ calls' = Append(calls, [engine |-> "pytesseract", raised |-> FALSE])
    /\ excA' = [status |-> 500, detail |-> "Error during image processing"]
    /\ pcA' = "except"
    /\ UNCHANGED <<notA, image_data, results, idxA, rectsA, outA>>
\* lines 28-35: the fallback engine returns; rows are filtered by confidence
AFallbackOk ==
    /\ mode = "A" /\ pcA = "fallback"
    /\ \E text_data \in FallbackOutputs : results' = FallbackResults(text_data)
    /\ calls' = Append(calls, [engine |-> "pytesseract", raised |-> FALSE])
    /\ idxA' = 1
    /\ pcA' = "detect"
    /\ UNCHANGED <<notA, image_data, rectsA, excA, outA>>

\* lines 36-38: the fallback engine raises too
AFallbackRaise ==
    /\ mode = "A" /\ pcA = "fallback"
    /\ calls' = Append(calls, [engine |-> "pytesseract", raised |-> TRUE])
    /\ excA' = [status |-> 500, detail |-> "Error during image processing"]
    /\ pcA' = "except"
    /\ UNCHANGED <<notA, image_data, results, idxA, rectsA, outA>>

\* lines 41-58: one iteration of the detection loop
ADetectStep ==
    /\ mode = "A" /\ pcA = "detect" /\ idxA <= Len(results)
    /\ LET result == results[idxA]
       IN rectsA' = IF StrategyAMatches(result.text)
                    THEN Append(rectsA, RectOf(TopLeft(result), BottomRight(result), idxA))
                    ELSE rectsA
    /\ idxA' = idxA + 1
    /\ UNCHANGED <<notA, image_data, pcA, calls, results, excA, outA>>

\* line 60: return masked_image
AReturn ==
    /\ mode = "A" /\ pcA = "detect" /\ idxA > Len(results)
    /\ outA' = [kind |-> "image", status |-> 200, detail |-> "", cause |-> NoExc]
    /\ pcA' = "returned"
    /\ UNCHANGED <<notA, image_data, calls, results, idxA, rectsA, excA>>

\* lines 61-62: except Exception catches every exception raised in the body,
\* HTTPException included, and raises HTTPException(500) in its place
AOuterExcept ==
    /\ mode = "A" /\ pcA = "except"
    /\ outA' = [kind |-> "HTTPException", status |-> 500,
                detail |-> "Error processing image", cause |-> excA]
    /\ pcA' = "raised"
    /\ UNCHANGED <<notA, image_data, calls, results, idxA, rectsA, excA>>

NextA ==
    \/ ADecodeOk \/ ADecodeFail
    \/ APrimaryOk \/ APrimaryRaise
    \/ AFallbackOk \/ AFallbackRaise
    \/ ADetectStep \/ AReturn \/ AOuterExcept


(***************************************************************************)
(* extract_text_and_bboxes and mask_aadhaar                                *)
(***************************************************************************)
MaxWords == 6      \* words in a generated OCR word stream

\* str.strip(): drop leading and trailing whitespace
RECURSIVE LStrip(_)
LStrip(t) == IF t # << >> /\ Head(t) \in Whitespace THEN LStrip(Tail(t)) ELSE t
RECURSIVE RStrip(_)
RStrip(t) ==
    IF t # << >> /\ t[Len(t)] \in Whitespace THEN RStrip(SubSeq(t, 1, Len(t) - 1)) ELSE t
Strip(t) == RStrip(LStrip(t))

\* str.isdigit(): non-empty and every character a digit
IsDigitStr(t) == t # << >> /\ \A k \in 1..Len(t) : t[k] \in Digits

\* variant of IsNumericWord without the isdigit() test
IsNumericWord_NoCheck(word) == Strip(word) # << >>
\* word.strip() and word.isdigit()
IsNumericWord(word) == Strip(word) # << >> /\ IsDigitStr(word)

\* " ".join(tokens)
RECURSIVE Join(_)
Join(tokens) ==
    IF tokens = << >> THEN << >>
    ELSE IF Len(tokens) = 1 THEN tokens[1]
    ELSE tokens[1] \o SP \o Join(Tail(tokens))

\* variant of BufferMatches that uses AADHAAR_REGEX.search
BufferMatches_Search(combined_text) ==
    \E k \in 1..(Len(combined_text) + 1) :
        MatchFrom(AADHAAR_REGEX, 1, combined_text, k) # 0
\* AADHAAR_REGEX.fullmatch(combined_text)
BufferMatches(combined_text) == re_fullmatch(AADHAAR_REGEX, combined_text)

Min(S) == CHOOSE m \in S : \A n \in S : m <= n
Max(S) == CHOOSE m \in S : \A n \in S : m >= n

\* variant of MatchBox over the whole buffer instead of current_bboxes[:2]
MatchBox_AllTokens(cb) ==
    <<Min({cb[k][1] : k \in 1..Len(cb)}), Min({cb[k][2] : k \in 1..Len(cb)}),
      Max({cb[k][3] : k \in 1..Len(cb)}), Max({cb[k][4] : k \in 1..Len(cb)})>>
\* lines 40-44: the union box of current_bboxes[:2]
MatchBox(cb) ==
    LET first2 == SubSeq(cb, 1, IF Len(cb) < 2 THEN Len(cb) ELSE 2)
    IN <<Min({first2[k][1] : k \in 1..Len(first2)}),
         Min({first2[k][2] : k \in 1..Len(first2)}),
         Max({first2[k][3] : k \in 1..Len(first2)}),
         Max({first2[k][4] : k \in 1..Len(first2)})>>

\* lines 30-35: the box of word i
WordBox(d) == <<d.left, d.top, d.left + d.width, d.top + d.height>>

WordTexts == {G1, G2, <<"1", "2", "3">>, <<"a">>}
FlushTexts == {<< >>, SP}
G3 == <<"9", "0", "1", "2">>
\* a word stream whose k-th word sits at column k-1 of one text line
Layout(q) == [k \in 1..Len(q) |-> Row(q[k], ConfThreshold + 1, k - 1, 0, 1, 1)]
WordBoxesB == {<<l, tp, w>> : l \in Coord, tp \in Coord, w \in {0, MaxCoord}}
BOutputs ==
    {Layout(q) : q \in SeqsUpTo(WordTexts, MaxWords)}
    \cup {Layout(q) : q \in SeqsUpTo({G1} \cup FlushTexts, MaxWords - 2)}
    \cup {<<Row(G1, ConfThreshold + 1, b1[1], b1[2], b1[3], 1),
            Row(G2, ConfThreshold + 1, b2[1], b2[2], b2[3], 1),
            Row(G3, ConfThreshold + 1, 0 - 1, 0 - 1, e, e),
            Row(<<"a">>, ConfThreshold + 1, 0, 0, 1, 1)>> :
             b1 \in WordBoxesB, b2 \in WordBoxesB, e \in {1, MaxCoord + 2}}

InitB ==
    /\ mode = "B"
    /\ ocr_data = << >>
    /\ pcB = "start"
    /\ iB = 1
    /\ current_tokens = << >>
    /\ current_bboxes = << >>
    /\ texts = << >>
    /\ bboxes = << >>
    /\ drawnB = << >>
    /\ retB = ""

\* lines 21-25: preprocess the image and run the OCR engine
BOcr ==
    /\ mode = "B" /\ pcB = "start"
    /\ \E data \in BOutputs : ocr_data' = data
    /\ pcB' = "loop"
    /\ UNCHANGED <<notB, iB, current_tokens, current_bboxes, texts, bboxes, drawnB, retB>>

\* lines 13-14, 22: the file is unreadable or the engine raises; nothing in
\* extract_text_and_bboxes or mask_aadhaar catches the exception
BOcrRaise ==
    /\ mode = "B" /\ pcB = "start"
    /\ retB' = "raised"
    /\ pcB' = "done"
    /\ UNCHANGED <<notB, ocr_data, iB, current_tokens, current_bboxes, texts, bboxes, drawnB>>

\* lines 28-35: a numeric word is buffered
BLoopAppend ==
    /\ mode = "B" /\ pcB = "loop" /\ iB <= Len(ocr_data)
    /\ IsNumericWord(ocr_data[iB].text)
    /\ current_tokens' = Append(current_tokens, ocr_data[iB].text)
    /\ current_bboxes' = Append(current_bboxes, WordBox(ocr_data[iB]))
    /\ iB' = iB + 1
    /\ UNCHANGED <<notB, ocr_data, pcB, texts, bboxes, drawnB, retB>>

\* variant of BLoopFlush that keeps the buffer when the test fails
BLoopFlush_KeepOnMiss ==
    /\ mode = "B" /\ pcB = "loop" /\ iB <= Len(ocr_data)
    /\ ~IsNumericWord(ocr_data[iB].text)
    /\ LET combined_text == Join(current_tokens)
       IN IF BufferMatches(combined_text)
          THEN /\ texts' = Append(texts, combined_text)
               /\ bboxes' = Append(bboxes, MatchBox(current_bboxes))
               /\ current_tokens' = << >>
               /\ current_bboxes' = << >>
          ELSE UNCHANGED <<texts, bboxes, current_tokens, current_bboxes>>
    /\ iB' = iB + 1
    /\ UNCHANGED <<notB, ocr_data, pcB, drawnB, retB>>
\* lines 36-45: any other word tests the buffer and empties it
BLoopFlush ==
    /\ mode = "B" /\ pcB = "loop" /\ iB <= Len(ocr_data)
    /\ ~IsNumericWord(ocr_data[iB].text)
    /\ LET combined_text == Join(current_tokens)
       IN IF BufferMatches(combined_text)
          THEN /\ texts' = Append(texts, combined_text)
               /\ bboxes' = Append(bboxes, MatchBox(current_bboxes))
          ELSE UNCHANGED <<texts, bboxes>>
    /\ current_tokens' = << >>
    /\ current_bboxes' = << >>
    /\ iB' = iB + 1
    /\ UNCHANGED <<notB, ocr_data, pcB, drawnB, retB>>

\* lines 47, 55-57: no text was matched; mask_aadhaar returns None
BMaskNone ==
    /\ mode = "B" /\ pcB = "loop" /\ iB > Len(ocr_data)
    /\ texts = << >>
    /\ retB' = "None"
    /\ pcB' = "done"
    /\ UNCHANGED <<notB, ocr_data, iB, current_tokens, current_bboxes, texts, bboxes, drawnB>>

\* lines 47, 59-65: every rectangle is drawn and the image is saved
BMaskDraw ==
    /\ mode = "B" /\ pcB = "loop" /\ iB > Len(ocr_data)
    /\ texts # << >>
    /\ drawnB' = bboxes
    /\ retB' = "output_path"
    /\ pcB' = "done"
    /\ UNCHANGED <<notB, ocr_data, iB, current_tokens, current_bboxes, texts, bboxes>>

NextB ==
    \/ BOcr \/ BOcrRaise
    \/ BLoopAppend \/ BLoopFlush
    \/ BMaskNone \/ BMaskDraw

(***************************************************************************)
(* main, extract_aadhaar_with_gpt4, find_aadhaar_coordinates,              *)
(* mask_aadhaar_number                                                     *)
(***************************************************************************)
MaxTokensO == 3    \* words in an OCR result of the oracle-assisted path

\* s.replace(ch, "")
RECURSIVE Remove(_, _)
Remove(t, chars) ==
    IF t = << >> THEN << >>
    ELSE IF Head(t) \in chars THEN Remove(Tail(t), chars)
    ELSE <<Head(t)>> \o Remove(Tail(t), chars)

\* needle in hay (Python's substring test)
Contains(hay, needle) ==
    \E k \in 0..(Len(hay) - Len(needle)) :
        \A m \in 1..Len(needle) : hay[k + m] = needle[m]

\* "".join(parts)
RECURSIVE Concat(_)
Concat(parts) == IF parts = << >> THEN << >> ELSE Head(parts) \o Concat(Tail(parts))

NoneValue == [some |-> FALSE, value |-> << >>]
NoneBox == [some |-> FALSE, box |-> <<0, 0, 0, 0>>]

\* variant of ValidateReply without the length test
ValidateReply_NoLength(content) ==
    LET number == Strip(content)
        cleaned_number == Remove(number, {" "})
    IN IF IsDigitStr(cleaned_number)
       THEN [some |-> TRUE, value |-> number]
       ELSE NoneValue
\* lines 74-82: strip the reply, accept it when it is 12 digits once the
\* spaces are removed, and return it with its spaces
ValidateReply(content) ==
    LET number == Strip(content)
        cleaned_number == Remove(number, {" "})
    IN IF Len(cleaned_number) = 12 /\ IsDigitStr(cleaned_number)
       THEN [some |-> TRUE, value |-> number]
       ELSE NoneValue

\* variant of FindCoordinates that settles for the first digit-only row
FindCoordinates_FirstDigits(data, number) ==
    LET hits == {k \in 1..Len(data) : IsDigitStr(data[k].text)}
    IN IF hits = {} THEN NoneBox
       ELSE LET k == Min(hits)
            IN [some |-> TRUE,
                box |-> <<data[k].left, data[k].top, data[k].width, data[k].height>>]
\* lines 105-123: the search of find_aadhaar_coordinates over the OCR rows:
\* the value must occur in the concatenation of the digit-only rows, and
\* then the first row whose stripped text contains it is returned
FindCoordinates(data, number) ==
    LET digit_rows == SelectSeq(data, LAMBDA r : IsDigitStr(r.text))
        normalized_text == Concat([k \in 1..Len(digit_rows) |-> digit_rows[k].text])
        aadhaar_normalized == Remove(number, {" "})
        fragment(k) == Remove(data[k].text, {" ", "'", "-"})
        hits == {k \in 1..Len(data) : Contains(fragment(k), aadhaar_normalized)}
    IN IF Contains(normalized_text, aadhaar_normalized) /\ hits # {}
       THEN LET k == Min(hits)
            IN [some |-> TRUE,
                box |-> <<data[k].left, data[k].top, data[k].width, data[k].height>>]
       ELSE NoneBox

IDHyphen == G1 \o <<"-">> \o G2 \o <<"-">> \o G1
OracleContents ==
    {IDSpaced, ID12, SP \o IDSpaced \o SP, G1, << >>,
     G1 \o SP \o G2 \o SP \o <<"1", "2", "3", "a">>}
OTexts == {ID12, IDSpaced, IDHyphen, <<"x">> \o ID12, G1, G2, <<"a">>}
OData == {Layout(q) : q \in SeqsUpTo(OTexts, MaxTokensO)}

MsgNoKey == "Error: OPENAI_API_KEY not found in .env file"
MsgNoInput == "Error: Input image not found"
MsgExtractFailed == "Failed to extract Aadhaar number."
MsgMasked == "Successfully masked Aadhaar number!"
MsgMaskFailed == "Failed to mask Aadhaar number."

InitO ==
    /\ mode = "O"
    /\ envO \in [api_key : BOOLEAN, input_exists : BOOLEAN]
    /\ pcO = "start"
    /\ aadhaar_number = NoneValue
    /\ dataO = << >>
    /\ coordinates = NoneBox
    /\ drawnO = << >>
    /\ savedO = FALSE
    /\ printedO = << >>

\* lines 166-175: main gives up without a key or without the input file
OMainNoKey ==
    /\ mode = "O" /\ pcO = "start" /\ ~envO.api_key
    /\ printedO' = Append(printedO, MsgNoKey)
    /\ pcO' = "done"
    /\ UNCHANGED <<notO, envO, aadhaar_number, dataO, coordinates, drawnO, savedO>>

OMainNoInput ==
    /\ mode = "O" /\ pcO = "start" /\ envO.api_key /\ ~envO.input_exists
    /\ printedO' = Append(printedO, MsgNoInput)
    /\ pcO' = "done"
    /\ UNCHANGED <<notO, envO, aadhaar_number, dataO, coordinates, drawnO, savedO>>

OMainStart ==
    /\ mode = "O" /\ pcO = "start" /\ envO.api_key /\ envO.input_exists
    /\ pcO' = "oracle_pending"
    /\ UNCHANGED <<notO, envO, aadhaar_number, dataO, coordinates, drawnO, savedO, printedO>>

\* lines 31-33, 69-71, 84-86: the image cannot be encoded, the request
\* raises or the reply is not a 200: extract_aadhaar_with_gpt4 returns None
OExtractError ==
    /\ mode = "O" /\ pcO = "oracle_pending"
    /\ aadhaar_number' = NoneValue
    /\ pcO' = "extracted"
    /\ UNCHANGED <<notO, envO, dataO, coordinates, drawnO, savedO, printedO>>

\* lines 73-82: a 200 reply is validated
OExtractReply ==
    /\ mode = "O" /\ pcO = "oracle_pending"
    /\ \E content \in OracleContents : aadhaar_number' = ValidateReply(content)
    /\ pcO' = "extracted"
    /\ UNCHANGED <<notO, envO, dataO, coordinates, drawnO, savedO, printedO>>

\* lines 189-190: no value, main reports the extraction failure
OMainNoValue ==
    /\ mode = "O" /\ pcO = "extracted" /\ ~aadhaar_number.some
    /\ printedO' = Append(printedO, MsgExtractFailed)
    /\ pcO' = "done"
    /\ UNCHANGED <<notO, envO, aadhaar_number, dataO, coordinates, drawnO, savedO>>

\* lines 180-185, 134-138: main calls mask_aadhaar_number, which opens the image
OMaskOpen ==
    /\ mode = "O" /\ pcO = "extracted" /\ aadhaar_number.some
    /\ pcO' = "geometry_search"
    /\ UNCHANGED <<notO, envO, aadhaar_number, dataO, coordinates, drawnO, savedO, printedO>>

\* lines 134, 159-161, 187-188: Image.open raises; mask_aadhaar_number
\* returns False
OMaskOpenRaise ==
    /\ mode = "O" /\ pcO = "extracted" /\ aadhaar_number.some
    /\ printedO' = Append(printedO, MsgMaskFailed)
    /\ pcO' = "done"
    /\ UNCHANGED <<notO, envO, aadhaar_number, dataO, coordinates, drawnO, savedO>>

\* lines 140, 93-123: find_aadhaar_coordinates runs the OCR engine and searches
OFind ==
    /\ mode = "O" /\ pcO = "geometry_search"
    /\ \E data \in OData :
          /\ dataO' = data
          /\ coordinates' = FindCoordinates(data, aadhaar_number.value)
    /\ pcO' = "searched"
    /\ UNCHANGED <<notO, envO, aadhaar_number, drawnO, savedO, printedO>>

\* lines 95-102, 124-126: reading the image or the OCR engine raises;
\* find_aadhaar_coordinates returns None
OFindRaise ==
    /\ mode = "O" /\ pcO = "geometry_search"
    /\ coordinates' = NoneBox
    /\ pcO' = "searched"
    /\ UNCHANGED <<notO, envO, aadhaar_number, dataO, drawnO, savedO, printedO>>

\* lines 141-143, 187-188: no coordinates; mask_aadhaar_number returns False
OMaskAbort ==
    /\ mode = "O" /\ pcO = "searched" /\ ~coordinates.some
    /\ printedO' = Append(printedO, MsgMaskFailed)
    /\ pcO' = "not_located"
    /\ UNCHANGED <<notO, envO, aadhaar_number, dataO, coordinates, drawnO, savedO>>

\* lines 145-154, 185-186: the rectangle is drawn and the image saved
OMaskDraw ==
    /\ mode = "O" /\ pcO = "searched" /\ coordinates.some
    /\ LET x == coordinates.box[1]
           y == coordinates.box[2]
           w == coordinates.box[3]
           h == coordinates.box[4]
       IN drawnO' = Append(drawnO, <<x, y, x + w, y + h>>)
    /\ savedO' = TRUE
    /\ printedO' = Append(printedO, MsgMasked)
    /\ pcO' = "located"
    /\ UNCHANGED <<notO, envO, aadhaar_number, dataO, coordinates>>

\* lines 149-152, 159-161, 187-188: the rectangle is drawn on the image in
\* memory but image.save raises; mask_aadhaar_number returns False
OMaskSaveRaise ==
    /\ mode = "O" /\ pcO = "searched" /\ coordinates.some
    /\ LET x == coordinates.box[1]
           y == coordinates.box[2]
           w == coordinates.box[3]
           h == coordinates.box[4]
       IN drawnO' = Append(drawnO, <<x, y, x + w, y + h>>)
    /\ printedO' = Append(printedO, MsgMaskFailed)
    /\ pcO' = "done"
    /\ UNCHANGED <<notO, envO, aadhaar_number, dataO, coordinates, savedO>>

NextO ==
    \/ OMainNoKey \/ OMainNoInput \/ OMainStart
    \/ OExtractError \/ OExtractReply
    \/ OMainNoValue \/ OMaskOpen \/ OMaskOpenRaise
    \/ OFind \/ OFindRaise
    \/ OMaskAbort \/ OMaskDraw \/ OMaskSaveRaise

(***************************************************************************)
(* process_folder and process_images_in_folder                             *)
(***************************************************************************)
MaxUploads == 2    \* images in a folder, uploads in a request

\* what the pipelines make of an image file: it shows an identifier they
\* detect, it shows none, or it cannot be decoded or read by the OCR engine
Kinds == {"identifier", "no_identifier", "unreadable"}

\* process_aadhar_image as its callers see it: an image comes back, painted
\* or not, unless the decode or both engines fail (HTTPException)
ProcessAadharImage(kind) == IF kind = "unreadable" THEN "raised" ELSE "image"
\* mask_aadhaar as its callers see it: the saved path, None when no text
\* matched, or the exception of Image.open or of the OCR engine
MaskAadhaar(kind) ==
    CASE kind = "unreadable" -> "raised"
      [] kind = "no_identifier" -> "None"
      [] OTHER -> "output_path"

BatchFunctions == {"process_folder", "process_images_in_folder"}

InitF ==
    /\ mode = "F"
    /\ fnF \in BatchFunctions
    /\ batchF \in SeqsUpTo(Kinds, MaxUploads)
    /\ iF = 1
    /\ pcF = "start"
    /\ writtenF = {}
    /\ printedF = << >>

\* solution1.py lines 71-73: no image file in the folder
FFolderEmpty ==
    /\ mode = "F" /\ pcF = "start" /\ fnF = "process_folder"
    /\ batchF = << >>
    /\ printedF' = Append(printedF, <<"No valid image files found in the folder.", 0>>)
    /\ pcF' = "returned"
    /\ UNCHANGED <<notF, fnF, batchF, iF, writtenF>>

\* solution1.py lines 65-75: the listing is not empty
FFolderBegin ==
    /\ mode = "F" /\ pcF = "start" /\ fnF = "process_folder"
    /\ batchF # << >>
    /\ pcF' = "loop"
    /\ UNCHANGED <<notF, fnF, batchF, iF, writtenF, printedF>>

\* solution1.py lines 76-85: one image is processed and written
FFolderStep ==
    /\ mode = "F" /\ pcF = "loop" /\ fnF = "process_folder"
    /\ iF <= Len(batchF)
    /\ ProcessAadharImage(batchF[iF]) = "image"
    /\ writtenF' = writtenF \cup {iF}
    /\ printedF' = Append(printedF, <<"Processed and saved", iF>>)
    /\ iF' = iF + 1
    /\ UNCHANGED <<notF, fnF, batchF, pcF>>

\* solution1.py line 83: process_aadhar_image raises; the loop has no try, so
\* the exception leaves process_folder
FFolderRaise ==
    /\ mode = "F" /\ pcF = "loop" /\ fnF = "process_folder"
    /\ iF <= Len(batchF)
    /\ ProcessAadharImage(batchF[iF]) = "raised"
    /\ pcF' = "raised"
    /\ UNCHANGED <<notF, fnF, batchF, iF, writtenF, printedF>>

\* solution1.py line 87: the loop ran to its end
FFolderDone ==
    /\ mode = "F" /\ pcF = "loop" /\ fnF = "process_folder"
    /\ iF > Len(batchF)
    /\ printedF' = Append(printedF, <<"Processing completed for all Aadhaar cards.", 0>>)
    /\ pcF' = "returned"
    /\ UNCHANGED <<notF, fnF, batchF, iF, writtenF>>

\* solution2.py lines 78-80: no image file in the folder
FImagesEmpty ==
    /\ mode = "F" /\ pcF = "start" /\ fnF = "process_images_in_folder"
    /\ batchF = << >>
    /\ printedF' = Append(printedF, <<"No images found in the folder.", 0>>)
    /\ pcF' = "returned"
    /\ UNCHANGED <<notF, fnF, batchF, iF, writtenF>>

\* solution2.py lines 71-82: the listing is not empty
FImagesBegin ==
    /\ mode = "F" /\ pcF = "start" /\ fnF = "process_images_in_folder"
    /\ batchF # << >>
    /\ pcF' = "loop"
    /\ UNCHANGED <<notF, fnF, batchF, iF, writtenF, printedF>>

\* solution2.py lines 83-86: mask_aadhaar saved the masked image
FImagesSaved ==
    /\ mode = "F" /\ pcF = "loop" /\ fnF = "process_images_in_folder"
    /\ iF <= Len(batchF)
    /\ MaskAadhaar(batchF[iF]) = "output_path"
    /\ writtenF' = writtenF \cup {iF}
    /\ printedF' = Append(printedF, <<"Masked image saved as", iF>>)
    /\ iF' = iF + 1
    /\ UNCHANGED <<notF, fnF, batchF, pcF>>

\* solution2.py lines 87-88: mask_aadhaar returned None
FImagesNone ==
    /\ mode = "F" /\ pcF = "loop" /\ fnF = "process_images_in_folder"
    /\ iF <= Len(batchF)
    /\ MaskAadhaar(batchF[iF]) = "None"
    /\ printedF' = Append(printedF, <<"No Aadhaar numbers found in the image", iF>>)
    /\ iF' = iF + 1
    /\ UNCHANGED <<notF, fnF, batchF, pcF, writtenF>>

\* solution2.py lines 89-90: the exception of one image is caught and printed
FImagesExcept ==
    /\ mode = "F" /\ pcF = "loop" /\ fnF = "process_images_in_folder"
    /\ iF <= Len(batchF)
    /\ MaskAadhaar(batchF[iF]) = "raised"
    /\ printedF' = Append(printedF, <<"Error processing", iF>>)
    /\ iF' = iF + 1
    /\ UNCHANGED <<notF, fnF, batchF, pcF, writtenF>>

\* solution2.py line 82: the loop ran to its end
FImagesDone ==
    /\ mode = "F" /\ pcF = "loop" /\ fnF = "process_images_in_folder"
    /\ iF > Len(batchF)
    /\ pcF' = "returned"
    /\ UNCHANGED <<notF, fnF, batchF, iF, writtenF, printedF>>

NextF ==
    \/ FFolderEmpty \/ FFolderBegin \/ FFolderStep \/ FFolderRaise \/ FFolderDone
    \/ FImagesEmpty \/ FImagesBegin \/ FImagesSaved \/ FImagesNone
    \/ FImagesExcept \/ FImagesDone

(***************************************************************************)
(* The HTTP handlers of app.py.  The handlers are coroutines of one event  *)
(* loop: a handler runs without interruption from one await to the next,   *)
(* the only await that suspends it is file.read(), and the body of a       *)
(* FileResponse is read from its path after the handler has returned.      *)
(***************************************************************************)
MaxClock == 1      \* seconds that may pass while the requests are served

Reqs == {"r1", "r2"}
Names == {"a.jpg", "b.jpg"}
SingleHandlers == {"mask_aadhar_card", "mask_aadhar_layoutlm"}
MultiHandlers == {"mask_multiple_aadhar_cards", "mask_multiple_aadhar_cards_layoutlm"}
StrategyB(h) == h \in {"mask_aadhar_layoutlm", "mask_multiple_aadhar_cards_layoutlm"}

\* an UploadFile: its filename, whether its content type starts with
\* "image/", and what the pipelines make of its bytes
Upload(n, img, k) == [filename |-> n, image |-> img, kind |-> k]
AnyUploads ==
    {Upload(n, TRUE, k) : n \in Names, k \in Kinds}
    \cup {Upload("notes.txt", FALSE, "unreadable")}
PlainUploads == {Upload(n, TRUE, "identifier") : n \in Names}
RequestsOver(U) ==
    {[handler |-> h, files |-> <<u>>] : h \in SingleHandlers, u \in U}
    \cup {[handler |-> h, files |-> q] : h \in MultiHandlers, q \in SeqsUpTo(U, MaxUploads)}
NoRequest == [handler |-> "none", files |-> << >>]

\* a path is <<directory, prefix, filename, timestamp>>
NoPath == <<"", "", "", 0>>
TempPath(name) == <<"temp", "", name, 0>>
OutputPath(h, name) ==
    IF StrategyB(h) THEN <<"output", "masked_", name, 0>>
    ELSE <<"output", "masked_aadhar_", name, 0>>
ZipPath(ts) == <<"output", "masked_aadhars_", ".zip", ts>>
StagingPath(ts, p) == <<"temp/zip_", p[2], p[3], ts>>
InStaging(ts, q) == q[1] = "temp/zip_" /\ q[4] = ts

\* file contents: the bytes of the k-th upload of request r, the masked
\* image made from some bytes, an archive of <<prefix, filename, content>>
NoContent == [kind |-> "none", of |-> <<"", 0>>, entries |-> {}]
UploadContent(r, k) == [kind |-> "upload", of |-> <<r, k>>, entries |-> {}]
Masked(c) == [kind |-> "masked", of |-> c.of, entries |-> {}]
Archive(es) == [kind |-> "zip", of |-> <<"", 0>>, entries |-> es]

\* open(path, "wb").write, cv2.imwrite, image.save: create or overwrite
Write(f, path, c) == [p \in DOMAIN f \cup {path} |-> IF p = path THEN c ELSE f[p]]
\* shutil.copy2 of every collected path into the staging directory
RECURSIVE CopyAll(_, _, _)
CopyAll(f, paths, ts) ==
    IF paths = << >> THEN f
    ELSE CopyAll(Write(f, StagingPath(ts, Head(paths)), f[Head(paths)]), Tail(paths), ts)
\* shutil.make_archive over the staging directory
MakeArchive(f, ts) ==
    Archive({<<q[2], q[3], f[q].of>> : q \in {p \in DOMAIN f : InStaging(ts, p)}})
\* shutil.rmtree of the staging directory
RmTree(f, ts) == [p \in {q \in DOMAIN f : ~InStaging(ts, q)} |-> f[p]]

\* responses: a FileResponse over a path or an HTTPException.  The blanket
\* except clause of every handler raises HTTPException(500, str(e)): cause
\* and detail keep the status and the detail of the exception e it caught
\* (cause 0: e was no HTTPException)
NoResp == [status |-> 0, detail |-> "", cause |-> 0, path |-> NoPath]
FileResponse(path) == [status |-> 200, detail |-> "", cause |-> 0, path |-> path]
HTTPException(status, detail) ==
    [status |-> status, detail |-> detail, cause |-> 0, path |-> NoPath]
FailureStatus == 500
Wrapped(e) ==
    [status |-> FailureStatus, detail |-> e.detail, cause |-> e.status, path |-> NoPath]
PipelineError(h) ==
    IF StrategyB(h) THEN [status |-> 0, detail |-> "pipeline failure"]
    ELSE [status |-> 500, detail |-> "Error processing image"]

\* the upload a request is at, and the index of the next image upload
FileOf(r) == reqS[r].files[idxS[r]]
NextImage(files, i) ==
    IF \E j \in i..Len(files) : files[j].image
    THEN Min({j \in i..Len(files) : files[j].image})
    ELSE Len(files) + 1

\* the steps of a handler from the return of file.read() to the result of
\* the pipeline for that upload: the file system afterwards, the pipeline's
\* result and the output path
ProcessUpload(r) ==
    LET h == reqS[r].handler
        u == FileOf(r)
        own == UploadContent(r, idxS[r])
        out == OutputPath(h, u.filename)
    IN IF StrategyB(h)
       THEN LET f1 == Write(fs, TempPath(u.filename), own)
                res == MaskAadhaar(u.kind)
            IN [result |-> res, path |-> out,
                fs |-> IF res = "output_path"
                       THEN Write(f1, out, Masked(f1[TempPath(u.filename)]))
                       ELSE f1]
       ELSE LET res == ProcessAadharImage(u.kind)
            IN [result |-> res, path |-> out,
                fs |-> IF res = "image" THEN Write(fs, out, Masked(own)) ELSE fs]
Collected(r) ==
    IF ProcessUpload(r).result \in {"image", "output_path"}
    THEN Append(masked_images[r], ProcessUpload(r).path)
    ELSE masked_images[r]

InitS ==
    /\ mode = "S"
    /\ \/ \E q \in RequestsOver(AnyUploads) :
             reqS = [r \in Reqs |-> IF r = "r1" THEN q ELSE NoRequest]
       \/ \E q1 \in RequestsOver(PlainUploads), q2 \in RequestsOver(PlainUploads) :
             reqS = [r \in Reqs |-> IF r = "r1" THEN q1 ELSE q2]
    /\ pcS = [r \in Reqs |-> IF reqS[r] = NoRequest THEN "absent" ELSE "start"]
    /\ idxS = [r \in Reqs |-> 1]
    /\ timestampS = [r \in Reqs |-> 0]
    /\ masked_images = [r \in Reqs |-> << >>]
    /\ respS = [r \in Reqs |-> NoResp]
    /\ servedS = [r \in Reqs |-> NoContent]
    /\ fs = << >>
    /\ clock = 0

\* the handler of r ends with an HTTPException
Fails(r, e, f) ==
    /\ respS' = [respS EXCEPT ![r] = e]
    /\ pcS' = [pcS EXCEPT ![r] = "done"]
    /\ fs' = f
\* the handler of r returns a FileResponse
Returns(r, path, f) ==
    /\ respS' = [respS EXCEPT ![r] = FileResponse(path)]
    /\ pcS' = [pcS EXCEPT ![r] = "responded"]
    /\ fs' = f

\* ---- mask_aadhar_card ----
\* lines 50-51: raised before the try
SCardReject(r) ==
    /\ mode = "S" /\ pcS[r] = "start" /\ reqS[r].handler = "mask_aadhar_card"
    /\ ~FileOf(r).image
    /\ Fails(r, HTTPException(400, "File must be an image"), fs)
    /\ UNCHANGED <<notS, reqS, idxS, timestampS, masked_images, servedS, clock>>

\* lines 53-55: await file.read()
SCardRead(r) ==
    /\ mode = "S" /\ pcS[r] = "start" /\ reqS[r].handler = "mask_aadhar_card"
    /\ FileOf(r).image
    /\ pcS' = [pcS EXCEPT ![r] = "reading"]
    /\ UNCHANGED <<notS, reqS, idxS, timestampS, masked_images, respS, servedS, fs, clock>>

\* lines 58, 72-73: process_aadhar_image raises
SCardRaise(r) ==
    /\ mode = "S" /\ pcS[r] = "reading" /\ reqS[r].handler = "mask_aadhar_card"
    /\ ProcessUpload(r).result = "raised"
    /\ Fails(r, Wrapped(PipelineError(reqS[r].handler)), ProcessUpload(r).fs)
    /\ UNCHANGED <<notS, reqS, idxS, timestampS, masked_images, servedS, clock>>

\* lines 58-70: the masked image is written and a FileResponse over its
\* path is returned
SCardRespond(r) ==
    /\ mode = "S" /\ pcS[r] = "reading" /\ reqS[r].handler = "mask_aadhar_card"
    /\ ProcessUpload(r).result = "image"
    /\ Returns(r, ProcessUpload(r).path, ProcessUpload(r).fs)
    /\ UNCHANGED <<notS, reqS, idxS, timestampS, masked_images, servedS, clock>>

\* ---- mask_aadhar_layoutlm ----
\* lines 134-135: raised before the try
SLayoutReject(r) ==
    /\ mode = "S" /\ pcS[r] = "start" /\ reqS[r].handler = "mask_aadhar_layoutlm"
    /\ ~FileOf(r).image
    /\ Fails(r, HTTPException(400, "File must be an image"), fs)
    /\ UNCHANGED <<notS, reqS, idxS, timestampS, masked_images, servedS, clock>>

\* lines 137-139: await file.read()
SLayoutRead(r) ==
    /\ mode = "S" /\ pcS[r] = "start" /\ reqS[r].handler = "mask_aadhar_layoutlm"
    /\ FileOf(r).image
    /\ pcS' = [pcS EXCEPT ![r] = "reading"]
    /\ UNCHANGED <<notS, reqS, idxS, timestampS, masked_images, respS, servedS, fs, clock>>

\* lines 142-147, 159-160: the temp file is written, mask_aadhaar raises
SLayoutRaise(r) ==
    /\ mode = "S" /\ pcS[r] = "reading" /\ reqS[r].handler = "mask_aadhar_layoutlm"
    /\ ProcessUpload(r).result = "raised"
    /\ Fails(r, Wrapped(PipelineError(reqS[r].handler)), ProcessUpload(r).fs)
    /\ UNCHANGED <<notS, reqS, idxS, timestampS, masked_images, servedS, clock>>

\* lines 149-150, 159-160: mask_aadhaar returned None; the HTTPException(400)
\* is raised inside the try and caught by its except Exception
SLayoutNone(r) ==
    /\ mode = "S" /\ pcS[r] = "reading" /\ reqS[r].handler = "mask_aadhar_layoutlm"
    /\ ProcessUpload(r).result = "None"
    /\ Fails(r, Wrapped(HTTPException(400, "No Aadhaar numbers found in the image")),
             ProcessUpload(r).fs)
    /\ UNCHANGED <<notS, reqS, idxS, timestampS, masked_images, servedS, clock>>

\* lines 142-157: the temp file and the masked image are written and a
\* FileResponse over the output path is returned
SLayoutRespond(r) ==
    /\ mode = "S" /\ pcS[r] = "reading" /\ reqS[r].handler = "mask_aadhar_layoutlm"
    /\ ProcessUpload(r).result = "output_path"
    /\ Returns(r, ProcessUpload(r).path, ProcessUpload(r).fs)
    /\ UNCHANGED <<notS, reqS, idxS, timestampS, masked_images, servedS, clock>>

\* ---- mask_multiple_aadhar_cards, mask_multiple_aadhar_cards_layoutlm ----
\* lines 79-80, 166-167: raised before the try
MultiNoFiles(r, h) ==
    /\ mode = "S" /\ pcS[r] = "start" /\ reqS[r].handler = h
    /\ reqS[r].files = << >>
    /\ Fails(r, HTTPException(400, "No files provided"), fs)
    /\ UNCHANGED <<notS, reqS, idxS, timestampS, masked_images, servedS, clock>>

\* lines 83-90, 170-177: the timestamp is taken, uploads that are no images
\* are skipped, the first image upload is awaited
MultiBegin(r, h) ==
    /\ mode = "S" /\ pcS[r] = "start" /\ reqS[r].handler = h
    /\ reqS[r].files # << >>
    /\ NextImage(reqS[r].files, 1) <= Len(reqS[r].files)
    /\ timestampS' = [timestampS EXCEPT ![r] = clock]
    /\ idxS' = [idxS EXCEPT ![r] = NextImage(reqS[r].files, 1)]
    /\ pcS' = [pcS EXCEPT ![r] = "reading"]
    /\ UNCHANGED <<notS, reqS, masked_images, respS, servedS, fs, clock>>

\* lines 86-88, 99-100, 126-127: no upload is an image; the
\* HTTPException(400) is raised inside the try
MultiBeginNone(r, h) ==
    /\ mode = "S" /\ pcS[r] = "start" /\ reqS[r].handler = h
    /\ reqS[r].files # << >>
    /\ NextImage(reqS[r].files, 1) > Len(reqS[r].files)
    /\ timestampS' = [timestampS EXCEPT ![r] = clock]
    /\ Fails(r, Wrapped(HTTPException(400, "No valid images processed")), fs)
    /\ UNCHANGED <<notS, reqS, idxS, masked_images, servedS, clock>>

\* lines 91, 126-127 and 184, 216-217: the pipeline raises on one upload and
\* the except clause of the handler ends the request
MultiRaise(r, h) ==
    /\ mode = "S" /\ pcS[r] = "reading" /\ reqS[r].handler = h
    /\ ProcessUpload(r).result = "raised"
    /\ Fails(r, Wrapped(PipelineError(h)), ProcessUpload(r).fs)
    /\ UNCHANGED <<notS, reqS, idxS, timestampS, masked_images, servedS, clock>>

\* lines 91-97, 178-187, then 86-90: the upload is processed and the next
\* image upload is awaited
MultiNext(r, h) ==
    /\ mode = "S" /\ pcS[r] = "reading" /\ reqS[r].handler = h
    /\ ProcessUpload(r).result # "raised"
    /\ NextImage(reqS[r].files, idxS[r] + 1) <= Len(reqS[r].files)
    /\ fs' = ProcessUpload(r).fs
    /\ masked_images' = [masked_images EXCEPT ![r] = Collected(r)]
    /\ idxS' = [idxS EXCEPT ![r] = NextImage(reqS[r].files, idxS[r] + 1)]
    /\ UNCHANGED <<notS, reqS, pcS, timestampS, respS, servedS, clock>>

\* lines 99-100, 189-190: the last upload is processed and nothing was
\* collected
MultiNoneValid(r, h) ==
    /\ mode = "S" /\ pcS[r] = "reading" /\ reqS[r].handler = h
    /\ ProcessUpload(r).result # "raised"
    /\ NextImage(reqS[r].files, idxS[r] + 1) > Len(reqS[r].files)
    /\ Collected(r) = << >>
    /\ Fails(r, Wrapped(HTTPException(400, "No valid images processed")),
             ProcessUpload(r).fs)
    /\ UNCHANGED <<notS, reqS, idxS, timestampS, masked_images, servedS, clock>>

\* lines 102-124, 192-214: the last upload is processed, the collected
\* files are copied to the staging directory, archived, the staging
\* directory is removed and a FileResponse over the archive is returned
MultiZip(r, h) ==
    /\ mode = "S" /\ pcS[r] = "reading" /\ reqS[r].handler = h
    /\ ProcessUpload(r).result # "raised"
    /\ NextImage(reqS[r].files, idxS[r] + 1) > Len(reqS[r].files)
    /\ Collected(r) # << >>
    /\ masked_images' = [masked_images EXCEPT ![r] = Collected(r)]
    /\ LET ts == timestampS[r]
           staged == CopyAll(ProcessUpload(r).fs, Collected(r), ts)
           zipped == Write(staged, ZipPath(ts), MakeArchive(staged, ts))
       IN Returns(r, ZipPath(ts), RmTree(zipped, ts))
    /\ UNCHANGED <<notS, reqS, idxS, timestampS, servedS, clock>>

SCardsNoFiles(r) == MultiNoFiles(r, "mask_multiple_aadhar_cards")
SCardsBegin(r) == MultiBegin(r, "mask_multiple_aadhar_cards")
SCardsBeginNone(r) == MultiBeginNone(r, "mask_multiple_aadhar_cards")
SCardsRaise(r) == MultiRaise(r, "mask_multiple_aadhar_cards")
SCardsNext(r) == MultiNext(r, "mask_multiple_aadhar_cards")
SCardsZip(r) == MultiZip(r, "mask_multiple_aadhar_cards")
SLayoutsNoFiles(r) == MultiNoFiles(r, "mask_multiple_aadhar_cards_layoutlm")
SLayoutsBegin(r) == MultiBegin(r, "mask_multiple_aadhar_cards_layoutlm")
SLayoutsBeginNone(r) == MultiBeginNone(r, "mask_multiple_aadhar_cards_layoutlm")
SLayoutsRaise(r) == MultiRaise(r, "mask_multiple_aadhar_cards_layoutlm")
SLayoutsNext(r) == MultiNext(r, "mask_multiple_aadhar_cards_layoutlm")
SLayoutsNoneValid(r) == MultiNoneValid(r, "mask_multiple_aadhar_cards_layoutlm")
SLayoutsZip(r) == MultiZip(r, "mask_multiple_aadhar_cards_layoutlm")

\* FileResponse: the body is read from the path when the response is sent,
\* after the handler has returned
SServe(r) ==
    /\ mode = "S" /\ pcS[r] = "responded"
    /\ respS[r].path \in DOMAIN fs
    /\ servedS' = [servedS EXCEPT ![r] = fs[respS[r].path]]
    /\ pcS' = [pcS EXCEPT ![r] = "done"]
    /\ UNCHANGED <<notS, reqS, idxS, timestampS, masked_images, respS, fs, clock>>

\* lines 84, 171: datetime.now() moves on while requests are being served
STick ==
    /\ mode = "S" /\ clock < MaxClock
    /\ \E r \in Reqs : pcS[r] \in {"start", "reading", "responded"}
    /\ clock' = clock + 1
    /\ UNCHANGED <<notS, reqS, pcS, idxS, timestampS, masked_images, respS, servedS, fs>>

NextS ==
    \/ \E r \in Reqs :
          \/ SCardReject(r) \/ SCardRead(r) \/ SCardRaise(r) \/ SCardRespond(r)
          \/ SLayoutReject(r) \/ SLayoutRead(r) \/ SLayoutRaise(r)
          \/ SLayoutNone(r) \/ SLayoutRespond(r)
          \/ SCardsNoFiles(r) \/ SCardsBegin(r) \/ SCardsBeginNone(r)
          \/ SCardsRaise(r) \/ SCardsNext(r) \/ SCardsZip(r)
          \/ SLayoutsNoFiles(r) \/ SLayoutsBegin(r) \/ SLayoutsBeginNone(r)
          \/ SLayoutsRaise(r) \/ SLayoutsNext(r) \/ SLayoutsNoneValid(r)
          \/ SLayoutsZip(r)
          \/ SServe(r)
    \/ STick

IdleF ==
    /\ fnF = "none"
    /\ batchF = << >>
    /\ iF = 1
    /\ pcF = "idle"
    /\ writtenF = {}
    /\ printedF = << >>

IdleS ==
    /\ reqS = [r \in Reqs |-> NoRequest]
    /\ pcS = [r \in Reqs |-> "idle"]
    /\ idxS = [r \in Reqs |-> 1]
    /\ timestampS = [r \in Reqs |-> 0]
    /\ masked_images = [r \in Reqs |-> << >>]
    /\ respS = [r \in Reqs |-> NoResp]
    /\ servedS = [r \in Reqs |-> NoContent]
    /\ fs = << >>
    /\ clock = 0

IdleA ==
    /\ image_data = [decodable |-> FALSE]
    /\ pcA = "idle"
    /\ calls = << >>
    /\ results = << >>
    /\ idxA = 1
    /\ rectsA = << >>
    /\ excA = NoExc
    /\ outA = NoOut

IdleB ==
    /\ ocr_data = << >>
    /\ pcB = "idle"
    /\ iB = 1
    /\ current_tokens = << >>
    /\ current_bboxes = << >>
    /\ texts = << >>
    /\ bboxes = << >>
    /\ drawnB = << >>
    /\ retB = ""

IdleO ==
    /\ envO = [api_key |-> FALSE, input_exists |-> FALSE]
    /\ pcO = "idle"
    /\ aadhaar_number = NoneValue
    /\ dataO = << >>
    /\ coordinates = NoneBox
    /\ drawnO = << >>
    /\ savedO = FALSE
    /\ printedO = << >>

(***************************************************************************)
(* Specifications.                                                         *)
(***************************************************************************)
InitRunA == InitA /\ IdleB /\ IdleO /\ IdleF /\ IdleS
InitRunB == InitB /\ IdleA /\ IdleO /\ IdleF /\ IdleS
InitRunO == InitO /\ IdleA /\ IdleB /\ IdleF /\ IdleS
InitRunF == InitF /\ IdleA /\ IdleB /\ IdleO /\ IdleS
InitRunS == InitS /\ IdleA /\ IdleB /\ IdleO /\ IdleF
Init == InitRunA \/ InitRunB \/ InitRunO \/ InitRunF \/ InitRunS
Next == NextA \/ NextB \/ NextO \/ NextF \/ NextS
Spec == Init /\ [][Next]_vars
SpecA == InitRunA /\ [][NextA]_vars
SpecB == InitRunB /\ [][NextB]_vars
SpecO == InitRunO /\ [][NextO]_vars
SpecF == InitRunF /\ [][NextF]_vars
SpecS == InitRunS /\ [][NextS]_vars

(***************************************************************************)
(* Properties of process_aadhar_image.                                     *)
(***************************************************************************)
\* the box of a token as the OCR engine reported it: <<x1, y1, x2, y2>>
TokenBox(r) ==
    IF r.shape = "tuple"
    THEN <<r.bbox[1][1], r.bbox[1][2], r.bbox[3][1], r.bbox[3][2]>>
    ELSE <<r.bbox[1][1], r.bbox[1][2], r.bbox[2][1], r.bbox[2][2]>>

AllDigits(t, from, to) == \A k \in from..to : t[k] \in Digits

\* the two accepted surface forms, as whole texts
IsWholeIdentifier(t) ==
    \/ Len(t) = 12 /\ AllDigits(t, 1, 12)
    \/ /\ Len(t) = 14
       /\ AllDigits(t, 1, 4) /\ t[5] = " "
       /\ AllDigits(t, 6, 9) /\ t[10] = " "
       /\ AllDigits(t, 11, 14)

Raised(i) == calls[i].raised
OcrFailure == "Error during image processing"

\* C1: the primary engine is the first one called; the fallback engine is
\* called only as the second call and only after the primary raised; the
\* OCR failure is raised only when both engines raised; once an engine has
\* returned (even an empty result) the run is in the detection loop or has
\* returned an image, never ends in a failure, and the detection loop can
\* always take its next step or return.
C1_FallbackOrder ==
    /\ Len(calls) <= 2
    /\ \A i \in 1..Len(calls) :
          /\ (i = 1 => calls[i].engine = "easyocr")
          /\ (calls[i].engine = "pytesseract" => i = 2 /\ Raised(1))
    /\ (excA.detail = OcrFailure \/ outA.cause.detail = OcrFailure
           => Len(calls) = 2 /\ Raised(1) /\ Raised(2))
    /\ (pcA = "fallback" => Len(calls) = 1 /\ Raised(1))
    /\ ((\E i \in 1..Len(calls) : ~Raised(i))
           => /\ pcA \in {"detect", "returned"}
              /\ excA = NoExc
              /\ (pcA = "returned" => outA.kind = "image"))
    /\ (pcA = "returned" => \E i \in 1..Len(calls) : ~Raised(i))
    /\ (pcA = "detect" => ENABLED (ADetectStep \/ AReturn))

\* the fallback engine returned no token and the run returned an image
C1_Witness ==
    /\ pcA = "returned" /\ outA.kind = "image"
    /\ Len(calls) = 2 /\ Raised(1) /\ ~Raised(2)
    /\ results = << >>

\* C2: a token is painted if and only if its whole text is 12 digits or
\* three groups of 4 digits separated by single spaces.
C2_WholeTokenOnly ==
    pcA \in {"detect", "returned"} =>
        \A i \in 1..Len(results) :
            i < idxA =>
                ((\E k \in 1..Len(rectsA) : rectsA[k].src = i)
                    <=> IsWholeIdentifier(results[i].text))

\* C6 as stated: every painted rectangle keeps the token's top-left corner
\* and bottom edge and has its right edge at x1 + floor(0.66 * (x2 - x1)).
C6_FloorRightEdge ==
    \A k \in 1..Len(rectsA) :
        LET b == TokenBox(results[rectsA[k].src])
        IN /\ rectsA[k].pt1 = <<b[1], b[2]>>
           /\ rectsA[k].pt2 = <<b[1] + Floor066(b[3] - b[1]), b[4]>>

\* C6 amended: the right edge is x1 + floor(0.66 * (x2 - x1)) when x2 >= x1
\* and x1 - floor(0.66 * (x1 - x2)) when x2 < x1 (truncation towards zero),
\* on the tuple path and on the list path alike.
C6_TruncatedRightEdge ==
    \A k \in 1..Len(rectsA) :
        LET b == TokenBox(results[rectsA[k].src])
        IN /\ rectsA[k].pt1 = <<b[1], b[2]>>
           /\ rectsA[k].pt2[2] = b[4]
           /\ rectsA[k].pt2[1] = IF b[3] >= b[1]
                                 THEN b[1] + Floor066(b[3] - b[1])
                                 ELSE b[1] - Floor066(b[1] - b[3])

\* a painted token whose box has x2 < x1 and a width where floor and
\* truncation differ
C6_Witness ==
    \E k \in 1..Len(rectsA) :
        LET b == TokenBox(results[rectsA[k].src])
        IN b[3] < b[1] /\ Floor066(b[3] - b[1]) # 0 - Floor066(b[1] - b[3])

\* C10: undecodable bytes end in the status-400 "Invalid image data"
\* failure with no OCR engine called and no image returned.
C10_InvalidImage400 ==
    (pcA = "raised" /\ ~image_data.decodable) =>
        /\ outA.kind = "HTTPException"
        /\ outA.status = 400
        /\ outA.detail = "Invalid image data"
        /\ calls = << >>

(***************************************************************************)
(* Properties of extract_text_and_bboxes.                                  *)
(***************************************************************************)
WordText(j) == ocr_data[j].text
\* a flush signal: an empty or non-numeric word
FlushAt(j) == ~(WordText(j) # << >> /\ AllDigits(WordText(j), 1, Len(WordText(j))))
\* the first word of the numeric run that ends just before word j
RunStart(j) ==
    LET before == {f \in 1..(j - 1) : FlushAt(f)}
    IN IF before = {} THEN 1 ELSE 1 + Max(before)
\* word j is a flush that ends a run of exactly three 4-digit words
Qualifies(j) ==
    /\ FlushAt(j)
    /\ j - RunStart(j) = 3
    /\ \A k \in RunStart(j)..(j - 1) : Len(WordText(k)) = 4
QualFlushes(n) == {j \in 1..n : j <= Len(ocr_data) /\ Qualifies(j)}
Nth(S, k) == CHOOSE j \in S : Cardinality({m \in S : m < j}) = k - 1
Lesser(a, b) == IF a <= b THEN a ELSE b
Greater(a, b) == IF a >= b THEN a ELSE b

\* C3: the matches emitted so far are exactly those of the flushes read so
\* far that end a run of exactly three 4-digit words, one match each, in
\* order, the text being the three words joined by single spaces.
C3_EmitIffThreeGroups ==
    pcB \in {"loop", "done"} /\ retB # "raised" =>
        LET Q == QualFlushes(iB - 1)
        IN /\ Len(texts) = Cardinality(Q)
           /\ \A k \in 1..Len(texts) :
                 LET s == RunStart(Nth(Q, k))
                 IN texts[k] = WordText(s) \o <<" ">> \o WordText(s + 1)
                                 \o <<" ">> \o WordText(s + 2)

\* a stream holding a qualifying run and, after it, a flushed run of other
\* shape has been read to its end
C3_Witness ==
    /\ pcB = "done" /\ Len(texts) = 1
    /\ \E j \in 1..Len(ocr_data) :
          /\ FlushAt(j) /\ ~Qualifies(j) /\ j - RunStart(j) >= 1
          /\ QualFlushes(Len(ocr_data)) # {}

NumericPositions == {j \in 1..Len(ocr_data) : ~FlushAt(j)}
ThreeGroups ==
    /\ Cardinality(NumericPositions) = 3
    /\ \A j \in NumericPositions : Len(WordText(j)) = 4
\* the three groups are separated from one another by non-numeric words
SeparatedGroups ==
    /\ ThreeGroups
    /\ \A j \in NumericPositions : j + 1 \notin NumericPositions
\* the three groups are adjacent words and a flush follows them
ConsecutiveGroups ==
    /\ ThreeGroups
    /\ \E j \in NumericPositions :
          NumericPositions = {j, j + 1, j + 2} /\ j + 3 <= Len(ocr_data)

\* C4 as stated: three 4-digit groups separated from one another by
\* non-numeric words yield one match.
C4_SeparatedGroupsMatch ==
    (pcB = "done" /\ retB # "raised" /\ SeparatedGroups
        /\ FlushAt(Len(ocr_data))) => Len(texts) = 1

\* C4 amended: three 4-digit groups that are three adjacent words followed
\* by a non-numeric or empty word yield exactly one match, the groups
\* joined by single spaces; three groups separated from one another by
\* non-numeric words yield none.
C4_ConsecutiveGroupsMatch ==
    (pcB = "done" /\ retB # "raised") =>
        /\ ConsecutiveGroups =>
              LET j == Min(NumericPositions)
              IN texts = <<WordText(j) \o <<" ">> \o WordText(j + 1)
                             \o <<" ">> \o WordText(j + 2)>>
        /\ SeparatedGroups => texts = << >>

\* three adjacent groups inside a longer stream were read and matched
C4_Witness ==
    /\ pcB = "done" /\ ConsecutiveGroups /\ Len(texts) = 1
    /\ Len(ocr_data) > 4

\* C5: texts and bboxes are index-aligned, the k-th rectangle is the union
\* box of the first two words of the k-th matched run and of nothing else,
\* and mask_aadhaar draws exactly these rectangles.
C5_UnionOfFirstTwo ==
    pcB \in {"loop", "done"} /\ retB # "raised" =>
        LET Q == QualFlushes(iB - 1)
        IN /\ Len(bboxes) = Len(texts)
           /\ Len(bboxes) = Cardinality(Q)
           /\ \A k \in 1..Len(bboxes) :
                 LET s == RunStart(Nth(Q, k))
                     a == ocr_data[s]
                     b == ocr_data[s + 1]
                 IN bboxes[k] =
                      <<Lesser(a.left, b.left), Lesser(a.top, b.top),
                        Greater(a.left + a.width, b.left + b.width),
                        Greater(a.top + a.height, b.top + b.height)>>
           /\ (retB = "output_path" => drawnB = bboxes)

\* a match was drawn whose third word reaches beyond the drawn rectangle
C5_Witness ==
    /\ retB = "output_path" /\ Len(drawnB) = 1
    /\ LET c == ocr_data[RunStart(Nth(QualFlushes(Len(ocr_data)), 1)) + 2]
       IN c.left < drawnB[1][1] /\ c.left + c.width > drawnB[1][3]

(***************************************************************************)
(* Properties of the oracle-assisted path.                                 *)
(***************************************************************************)
\* token k of the OCR result, without spaces, apostrophes and hyphens,
\* contains the oracle value without its spaces
FragmentHas(k) ==
    Contains(Remove(dataO[k].text, {" ", "'", "-"}), Remove(aadhaar_number.value, {" "}))
SomeTokenContains == \E k \in 1..Len(dataO) : FragmentHas(k)
SearchRan == pcO \in {"searched", "located", "not_located"}
OracleAsked == envO.api_key /\ envO.input_exists

\* C8: when the search ran and no OCR token contains the oracle value, no
\* coordinates come back, nothing is drawn, no file is written and the run
\* ends not located with main printing the masking failure; a saved image
\* is reported by the success message and a missing oracle value by the
\* extraction failure, so the three reports differ.
C8_NotLocatedReported ==
    /\ (SearchRan /\ ~SomeTokenContains) =>
          /\ ~coordinates.some /\ drawnO = << >> /\ ~savedO
          /\ pcO # "located"
          /\ (pcO = "not_located" => printedO = <<MsgMaskFailed>>)
    /\ savedO => printedO = <<MsgMasked>>
    /\ (pcO = "done" /\ OracleAsked /\ ~aadhaar_number.some)
          => printedO = <<MsgExtractFailed>>
    /\ MsgMaskFailed # MsgMasked /\ MsgMaskFailed # MsgExtractFailed

\* the oracle gave a value, OCR found words and none of them contains it
C8_Witness ==
    /\ pcO = "not_located" /\ aadhaar_number.some
    /\ dataO # << >> /\ ~SomeTokenContains
    /\ printedO = <<MsgMaskFailed>>

\* C9: find_aadhaar_coordinates returns a box exactly when some OCR token,
\* stripped of spaces, apostrophes and hyphens, contains the oracle value,
\* and the box is that of the first such token.
C9_FoundIffTokenContains ==
    (SearchRan /\ dataO # << >>) =>
        /\ coordinates.some <=> SomeTokenContains
        /\ coordinates.some =>
              LET k == Min({m \in 1..Len(dataO) : FragmentHas(m)})
              IN coordinates.box =
                   <<dataO[k].left, dataO[k].top, dataO[k].width, dataO[k].height>>

(***************************************************************************)
(* Properties of the rectangles handed to the renderers.                   *)
(***************************************************************************)
InImage(x1, y1, x2, y2) ==
    /\ 0 <= x1 /\ x1 <= x2 /\ x2 <= ImgW
    /\ 0 <= y1 /\ y1 <= y2 /\ y2 <= ImgH
BoxInImage(b) == InImage(b[1], b[2], b[3], b[4])
RowBox(r) == <<r.left, r.top, r.left + r.width, r.top + r.height>>

Pixels == (0..(ImgW - 1)) \X (0..(ImgH - 1))
Painted(rs) ==
    {p \in Pixels : \E k \in 1..Len(rs) :
        /\ Lesser(rs[k].pt1[1], rs[k].pt2[1]) <= p[1]
        /\ p[1] <= Greater(rs[k].pt1[1], rs[k].pt2[1])
        /\ Lesser(rs[k].pt1[2], rs[k].pt2[2]) <= p[2]
        /\ p[2] <= Greater(rs[k].pt1[2], rs[k].pt2[2])}
NoTokenMatches == \A k \in 1..Len(results) : ~StrategyAMatches(results[k].text)
NoRunMatches == QualFlushes(Len(ocr_data)) = {}
ZeroMatchRequest(r) ==
    /\ pcS[r] = "done"
    /\ reqS[r].handler = "mask_aadhar_layoutlm"
    /\ FileOf(r).image
    /\ FileOf(r).kind = "no_identifier"

\* C11, process_aadhar_image: when the OCR succeeded and no token matches,
\* an image comes back and none of its pixels was painted.
C11_UnchangedImage ==
    (pcA = "returned" /\ NoTokenMatches) =>
        (outA.kind = "image" /\ Painted(rectsA) = {})
\* C11, mask_aadhaar: when the OCR succeeded and no token run matches, the
\* function returns None, draws nothing, and does not raise.
C11_NoneIsNotRaised ==
    (pcB = "done" /\ retB # "raised" /\ NoRunMatches) =>
        (retB = "None" /\ drawnB = << >>)
\* C11: a run without any match ends as a valid zero-region result: the
\* image of process_aadhar_image is unchanged, mask_aadhaar returns None,
\* and the response of /mask-aadhar-layoutlm/ to an image without an
\* identifier does not carry the status the handler gives a pipeline failure.
C11_ZeroRegionsIsNoFailure ==
    /\ C11_UnchangedImage
    /\ C11_NoneIsNotRaised
    /\ \A r \in Reqs : ZeroMatchRequest(r) => respS[r].status # FailureStatus

(***************************************************************************)
(* Properties of the batch operations.                                     *)
(***************************************************************************)
\* image k of the folder, processed on its own, yields an output file
YieldsOutputF(k) ==
    IF fnF = "process_folder" THEN ProcessAadharImage(batchF[k]) = "image"
    ELSE MaskAadhaar(batchF[k]) = "output_path"
\* upload k of request r, processed on its own, yields an output file
YieldsOutputS(r, k) ==
    /\ reqS[r].files[k].image
    /\ IF StrategyB(reqS[r].handler)
       THEN MaskAadhaar(reqS[r].files[k].kind) = "output_path"
       ELSE ProcessAadharImage(reqS[r].files[k].kind) = "image"
DistinctNames(r) ==
    \A j \in 1..Len(reqS[r].files), k \in 1..Len(reqS[r].files) :
        j # k => reqS[r].files[j].filename # reqS[r].files[k].filename
Alone(r) == \A q \in Reqs \ {r} : pcS[q] = "absent"
Delivered(r, k) ==
    /\ servedS[r].kind = "zip"
    /\ \E e \in servedS[r].entries : e[3] = <<r, k>>
BatchEnded == pcF \in {"returned", "raised"}
SomeFailureF == \E k \in 1..Len(batchF) : batchF[k] = "unreadable"

\* C12, process_images_in_folder only: every image that yields an output
\* on its own has its output written when the batch has ended.
C12_ImagesInFolderContinues ==
    (BatchEnded /\ fnF = "process_images_in_folder") =>
        \A k \in 1..Len(batchF) : YieldsOutputF(k) => k \in writtenF
\* C12: in every batch operation a failing image is fatal for that image
\* only: when the batch has ended, every image that yields an output on its
\* own has its output written (folder batches) and delivered in the archive
\* of the response (multi-file handlers).
C12_FailureIsPerImage ==
    /\ BatchEnded => \A k \in 1..Len(batchF) : YieldsOutputF(k) => k \in writtenF
    /\ \A r \in Reqs :
          (/\ pcS[r] = "done"
           /\ reqS[r].handler \in MultiHandlers
           /\ Alone(r)
           /\ DistinctNames(r))
          => \A k \in 1..Len(reqS[r].files) : YieldsOutputS(r, k) => Delivered(r, k)

(***************************************************************************)
(* Properties of concurrent requests.                                      *)
(***************************************************************************)
Answered(r) == pcS[r] = "done" /\ respS[r].status = 200
OwnImage(r, c) == c = Masked(UploadContent(r, 1))
OwnArchive(r, c) ==
    /\ c.kind = "zip"
    /\ c.entries # {}
    /\ \A e \in c.entries : e[3][1] = r
FilenamesOf(r) == {reqS[r].files[k].filename : k \in 1..Len(reqS[r].files)}

\* C13: whatever the interleaving of the two requests, the file a response
\* delivers holds the content of its own request: the masked image of its
\* own upload, or an archive of masked images of its own uploads only.
C13_NoCrossRequestData ==
    \A r \in Reqs :
        Answered(r) =>
            IF reqS[r].handler \in SingleHandlers
            THEN OwnImage(r, servedS[r])
            ELSE OwnArchive(r, servedS[r])

(***************************************************************************)
(* Properties of the buffer of extract_text_and_bboxes.                    *)
(***************************************************************************)
\* the words read since the last flush before word j, in order
PendingRun(j) == [k \in 1..(j - RunStart(j)) |-> WordText(RunStart(j) + k - 1)]
FlushesRead == {j \in 1..(iB - 1) : FlushAt(j)}
\* the stream ends with a run of exactly three 4-digit words
EndsWithIdentifier ==
    LET n == Len(ocr_data)
    IN /\ n >= 3
       /\ ~FlushAt(n)
       /\ RunStart(n + 1) = n - 2
       /\ \A k \in (n - 2)..n : Len(WordText(k)) = 4
\* the stream is three 4-digit words and then one flush word
IdentifierThenFlush ==
    /\ Len(ocr_data) = 4
    /\ ThreeGroups
    /\ FlushAt(4)

\* C14: the buffer always holds exactly the words read since the last
\* non-numeric or empty word, so every such word empties it whatever the
\* test's outcome, and no more matches exist than such words were read; at
\* the end of the stream a final run of three 4-digit words is still in
\* the buffer and has added no match, a stream that is only this run
\* yields None and no rectangle, and the same run followed by one
\* non-numeric word yields exactly one match and one rectangle.
C14_FinalBufferNeverFlushed ==
    (pcB \in {"loop", "done"} /\ retB # "raised") =>
        /\ current_tokens = PendingRun(iB)
        /\ Len(current_bboxes) = Len(current_tokens)
        /\ Len(texts) <= Cardinality(FlushesRead)
        /\ pcB = "done" =>
              /\ Len(drawnB) = Len(texts)
              /\ EndsWithIdentifier =>
                    /\ Len(current_tokens) = 3
                    /\ Len(texts) = Cardinality(QualFlushes(Len(ocr_data) - 3))
              /\ (EndsWithIdentifier /\ Len(ocr_data) = 3) =>
                    (texts = << >> /\ drawnB = << >> /\ retB = "None")
              /\ IdentifierThenFlush =>
                    (Len(texts) = 1 /\ Len(drawnB) = 1 /\ retB = "output_path")

\* a stream that ends with a three-group identifier was read to its end
\* and mask_aadhaar returned None
C14_Witness ==
    /\ pcB = "done" /\ retB = "None"
    /\ EndsWithIdentifier
    /\ Len(current_tokens) = 3

(***************************************************************************)
(* Properties of the order of the oracle-assisted path.                    *)
(***************************************************************************)
\* the state of the path: the oracle is being asked, it returned a value
\* main accepted, the image is open and the OCR search runs or has run,
\* the run ended located or not located; "outside" before the oracle is
\* asked, after it returned no value, and after a run that ended otherwise
Phase ==
    CASE pcO = "oracle_pending" -> "oracle_pending"
      [] pcO = "extracted" /\ aadhaar_number.some -> "oracle_value_obtained"
      [] pcO \in {"geometry_search", "searched"} -> "geometry_search"
      [] pcO = "located" -> "located"
      [] pcO = "not_located" -> "not_located"
      [] OTHER -> "outside"
ValidValue ==
    /\ aadhaar_number.some
    /\ Len(Remove(aadhaar_number.value, {" "})) = 12
    /\ IsDigitStr(Remove(aadhaar_number.value, {" "}))
OracleState ==
    /\ (Phase \in {"oracle_value_obtained", "geometry_search", "located", "not_located"}
           \/ dataO # << >> \/ coordinates.some \/ drawnO # << >> \/ savedO)
          => ValidValue
    /\ savedO => Phase = "located"
    /\ Phase = "located" => (savedO /\ Len(drawnO) = 1)
    /\ Phase = "not_located" => (drawnO = << >> /\ ~savedO)
OracleStep ==
    /\ (Phase' # Phase /\ Phase' = "oracle_pending") => pcO = "start"
    /\ (Phase' # Phase /\ Phase' = "oracle_value_obtained") => Phase = "oracle_pending"
    /\ (Phase' # Phase /\ Phase' = "geometry_search") => Phase = "oracle_value_obtained"
    /\ (Phase' # Phase /\ Phase' \in {"located", "not_located"}) => Phase = "geometry_search"
    /\ (dataO' # dataO \/ coordinates' # coordinates \/ drawnO' # drawnO \/ savedO' # savedO)
          => (Phase = "geometry_search" /\ ValidValue)
    /\ (pcO = "extracted" /\ ~aadhaar_number.some) => pcO' = "done"
    /\ pcO \in {"located", "not_located", "done"} => pcO' = pcO

\* C15: the path moves oracle_pending -> oracle_value_obtained ->
\* geometry_search -> located or not_located and never otherwise; the OCR
\* search, the rectangle and the output file exist only after the oracle
\* returned a value that is 12 digits once its spaces are removed; a run
\* whose oracle returned no such value ends with no search, no rectangle
\* and no file; and the file is written only in the located state.
C15_OraclePathOrder == []OracleState /\ [][OracleStep]_vars

\* the path reached located: one rectangle drawn and the file saved
C15_Witness ==
    /\ pcO = "located" /\ savedO /\ Len(drawnO) = 1
    /\ ValidValue
====
